---- MODULE Spec2Model ----
(***************************************************************************)
(* Model of the tempoiq-python query builder (protocol/query/builder.py)   *)
(* and of the response classification exercised by tests/test_response.py *)
(*                                                                         *)
(* Python values are modelled as strings; None is the string "None" and a  *)
(* keyword argument that was not passed at all is the string "absent".     *)
(***************************************************************************)
EXTENDS Integers, Sequences, FiniteSets, TLC

VARIABLES
    object_type, selection, pipeline, operation,  \* the fields of a QueryBuilder
    accepted,   \* history: the selectors filter has accepted, in call order
    given,      \* history: the start and end each pipeline step was appended with
    calls,      \* the calls made to the client and its monitoring client
    last,       \* the last method call on the builder and how it ended
    resp, raw   \* the last Response built and the transport result it was built from

vars == <<object_type, selection, pipeline, operation, accepted, given, calls,
          last, resp, raw>>

qbvars == <<object_type, selection, pipeline, operation, accepted, given, calls,
            last>>
respvars == <<resp, raw>>

----------------------------------------------------------------------------
(* Bounds of the model                                                     *)

\* filter calls, pipeline steps, and chained calls of both kinds on one builder
MaxFilters == 2
MaxPipe == 2
MaxSteps == 3
\* calls that reach the client before the builder is dropped
MaxCalls == 1

----------------------------------------------------------------------------
(* Python values                                                           *)

None == "None"
Absent == "absent"
\* a non-null value that is falsy in Python (0, "", ...)
Falsy == "0"
\* S, E of a terminal call and the start given to a pipeline step
Times == {"t1", "t2", "t3"}

\* kwargs.get(name): a keyword that was not passed reads as None
KwGet(v) == IF v = Absent THEN None ELSE v

\* Python truthiness of an argument value
Truthy(v) == v # None /\ v # Falsy

----------------------------------------------------------------------------
(* Response classification (tempoiq/response.py)                           *)

SUCCESS == 0
FAILURE == 1
PARTIAL == 2

Statuses == {200, 207, 299, 300, 403}
Reasons == {"OK", "Forbidden"}
Keys == {"key1", "key2"}
DeviceStates == {"existing", "created", "modified"}
Entries == [device_state : DeviceStates, message : {None}, success : {TRUE}]
           \cup [device_state : DeviceStates, message : {"bad things happened"},
                 success : {FALSE}]
Bodies == UNION {[K -> Entries] : K \in SUBSET Keys}
EmptyBody == [k \in {} |-> None]

NoResponse == [kind |-> "none", status |-> 0, reason |-> None,
               successful |-> SUCCESS, error |-> None, body |-> EmptyBody]
NoRaw == [status_code |-> 0, reason |-> None, text |-> None, body |-> EmptyBody]

\* Response.__init__: outcome from the status code
BadClassify(status) ==
    IF status >= 200 /\ status < 300 THEN SUCCESS ELSE FAILURE

Classify(status) ==
    IF status = 207 THEN PARTIAL
    ELSE IF status >= 200 /\ status < 300 THEN SUCCESS
    ELSE FAILURE

Response(r) ==
    [kind |-> "Response", status |-> r.status_code, reason |-> r.reason,
     successful |-> Classify(r.status_code),
     error |-> IF Classify(r.status_code) = SUCCESS THEN None ELSE r.text,
     body |-> EmptyBody]

\* WriteResponse: outcome from the decoded body
BadWriteOutcome(status, body) ==
    IF status >= 300 THEN FAILURE
    ELSE IF \A k \in DOMAIN body : body[k].success THEN SUCCESS
    ELSE IF \A k \in DOMAIN body : ~body[k].success THEN FAILURE
    ELSE PARTIAL

WriteOutcome(status, body) ==
    IF \A k \in DOMAIN body : body[k].success THEN SUCCESS
    ELSE IF \A k \in DOMAIN body : ~body[k].success THEN FAILURE
    ELSE PARTIAL

WriteResponse(r) ==
    [Response(r) EXCEPT !.kind = "WriteResponse",
                        !.body = r.body,
                        !.successful = WriteOutcome(r.status_code, r.body)]

\* the four views of a WriteResponse
failures(w) ==
    {<<k, w.body[k].message>> : k \in {x \in DOMAIN w.body : ~w.body[x].success}}

BadByState(w, state) ==
    {k \in DOMAIN w.body : w.body[k].device_state = state}

ByState(w, state) ==
    {k \in DOMAIN w.body : w.body[k].success /\ w.body[k].device_state = state}

created(w) == ByState(w, "created")
existing(w) == ByState(w, "existing")
modified(w) == ByState(w, "modified")

NewResponse(status, reason, text) ==
    /\ raw' = [status_code |-> status, reason |-> reason, text |-> text,
               body |-> EmptyBody]
    /\ resp' = Response(raw')
    /\ UNCHANGED qbvars

NewWriteResponse(status, reason, body) ==
    /\ raw' = [status_code |-> status, reason |-> reason, text |-> "json",
               body |-> body]
    /\ resp' = WriteResponse(raw')
    /\ UNCHANGED qbvars

----------------------------------------------------------------------------
(* Selectors and selections (protocol/query/selection.py)                  *)

Categories == {"devices", "sensors", "rules"}

ScalarSelector(c, v) ==
    [kind |-> "ScalarSelector", selection_type |-> c, value |-> v,
     selectors |-> <<>>]
AndClause(c, sels) ==
    [kind |-> "AndClause", selection_type |-> c, value |-> None,
     selectors |-> sels]
OrClause(c, sels) ==
    [kind |-> "OrClause", selection_type |-> c, value |-> None,
     selectors |-> sels]
DictSelector(c) ==
    [kind |-> "DictSelector", selection_type |-> c, value |-> None,
     selectors |-> <<>>]
\* Selection().selection before any filter call
NoSelector ==
    [kind |-> "NoneType", selection_type |-> None, value |-> None,
     selectors |-> <<>>]

\* hasattr(s, 'selectors')
HasSelectors(s) == s.kind \in {"AndClause", "OrClause"}
\* hasattr(s, 'value')
HasValue(s) == s.kind = "ScalarSelector"
\* issubclass(s.__class__, (Compound, DictSelectable))
IsCompound(s) == s.kind \in {"AndClause", "OrClause", "DictSelector"}

\* the arguments filter is called with
Selectors ==
    UNION {{ScalarSelector(c, "k1"), ScalarSelector(c, "k2"),
            AndClause(c, <<ScalarSelector(c, "k1")>>),
            OrClause(c, <<ScalarSelector(c, "k1"), ScalarSelector(c, "k2")>>),
            DictSelector(c)} : c \in Categories}

\* Selection.add: a later selector is combined with what is already there
SelectionAdd(current, selector) ==
    IF current = NoSelector THEN selector
    ELSE AndClause(selector.selection_type, <<current, selector>>)

\* the scalar selectors of an expression, left to right
RECURSIVE Leaves(_)
RECURSIVE LeavesOf(_)
Leaves(s) ==
    IF s.kind = "ScalarSelector" THEN <<s>> ELSE LeavesOf(s.selectors)
LeavesOf(sels) ==
    IF sels = <<>> THEN <<>> ELSE Leaves(Head(sels)) \o LeavesOf(Tail(sels))

\* extract_key_for_monitoring: the outcome and the key
BadExtractKey(root) ==
    IF HasSelectors(root)
    THEN IF Len(root.selectors) = 0 THEN [result |-> "IndexError", value |-> None]
         ELSE IF ~HasValue(root.selectors[1])
              THEN [result |-> "AttributeError", value |-> None]
         ELSE [result |-> "ok", value |-> root.selectors[1].value]
    ELSE IF ~HasValue(root) THEN [result |-> "AttributeError", value |-> None]
    ELSE [result |-> "ok", value |-> root.value]

extract_key_for_monitoring(root) ==
    IF HasSelectors(root)
    THEN IF Len(root.selectors) > 1 THEN [result |-> "ValueError", value |-> None]
         ELSE IF Len(root.selectors) = 0 THEN [result |-> "IndexError", value |-> None]
         ELSE IF ~HasValue(root.selectors[1])
              THEN [result |-> "AttributeError", value |-> None]
         ELSE [result |-> "ok", value |-> root.selectors[1].value]
    ELSE IF ~HasValue(root) THEN [result |-> "AttributeError", value |-> None]
    ELSE [result |-> "ok", value |-> root.value]

----------------------------------------------------------------------------
(* Pipeline functions (protocol/query/functions.py)                        *)

Aggregation(function) == [name |-> "aggregation", args |-> <<function>>]
ConvertTZ(tz) == [name |-> "convert_tz", args |-> <<tz>>]
Rollup(function, period, start) ==
    [name |-> "rollup", args |-> <<function, period, start>>]
MultiRollup(functions, period, start) ==
    [name |-> "multi_rollup", args |-> <<functions, period, start>>]
Find(function, period, start) ==
    [name |-> "find", args |-> <<function, period, start>>]
Interpolation(function, period, start, end) ==
    [name |-> "interpolate", args |-> <<function, period, start, end>>]

APIOperation(name, args) == [name |-> name, args |-> args]
NoOperation == [name |-> None, args |-> <<>>]

\* isinstance(function, (Rollup, MultiRollup, Find))
IsRollupLike(f) == f.name \in {"rollup", "multi_rollup", "find"}

\* function.args[-1], function.args[-2]
ArgLast(f) == f.args[Len(f.args)]
ArgLast2(f) == f.args[Len(f.args) - 1]
SetLast(f, v) == [f EXCEPT !.args[Len(f.args)] = v]
SetLast2(f, v) == [f EXCEPT !.args[Len(f.args) - 1] = v]

----------------------------------------------------------------------------
(* QueryBuilder                                                            *)

ObjectTypes == {"devices", "sensors", "rules"}

\* what a terminal call may be given as <<start, end>>
TerminalArgs ==
    {<<"t1", "t2">>, <<None, "t2">>, <<"t1", None>>, <<Absent, Absent>>,
     <<Falsy, Absent>>}
\* what a pipeline-appending call may be given as start (and end)
StepStarts == {None, "t3"}

\* how a method call on the builder ended: the exception it raised or "ok",
\* whether it warned, how many calls it made on the client, its arguments
\* other than start and end, and what it returned ("self", None, or the name
\* of the client method whose result it handed back)
Call(method, start, end, result) ==
    [method |-> method, start |-> start, end |-> end, result |-> result,
     warned |-> FALSE, delegated |-> Len(calls') - Len(calls),
     args |-> <<>>, returned |-> None]

Returning(call, value) == [call EXCEPT !.returned = value]

\* QueryBuilder.__init__
QBInit ==
    /\ object_type \in ObjectTypes
    /\ selection = [c \in Categories |-> NoSelector]
    /\ pipeline = <<>>
    /\ operation = NoOperation
    /\ accepted = <<>>
    /\ given = <<>>
    /\ calls = <<>>
    /\ last = [method |-> "__init__", start |-> None, end |-> None,
               result |-> "ok", warned |-> FALSE, delegated |-> 0,
               args |-> <<>>, returned |-> None]

\* _normalize_pipeline_functions, from step i on: whether it raised and the
\* pipeline it leaves behind
RECURSIVE BadNormalize(_, _, _, _)
BadNormalize(pipe, i, start, end) ==
    IF i > Len(pipe) THEN [raised |-> FALSE, pipeline |-> pipe]
    ELSE LET function == pipe[i] IN
         IF IsRollupLike(function)
         THEN IF start = None \/ end = None
              THEN [raised |-> TRUE, pipeline |-> pipe]
              ELSE BadNormalize([pipe EXCEPT ![i] = SetLast(function, start)],
                                i + 1, start, end)
         ELSE BadNormalize(pipe, i + 1, start, end)

\* normalization that wants only one of start and end
RECURSIVE LaxNormalize(_, _, _, _)
LaxNormalize(pipe, i, start, end) ==
    IF i > Len(pipe) THEN [raised |-> FALSE, pipeline |-> pipe]
    ELSE LET function == pipe[i] IN
         IF IsRollupLike(function)
         THEN IF start = None /\ end = None
              THEN [raised |-> TRUE, pipeline |-> pipe]
              ELSE LaxNormalize(
                       IF ArgLast(function) = None
                       THEN [pipe EXCEPT ![i] = SetLast(function, start)]
                       ELSE pipe,
                       i + 1, start, end)
         ELSE LaxNormalize(pipe, i + 1, start, end)

RECURSIVE NormalizeFrom(_, _, _, _)
NormalizeFrom(pipe, i, start, end) ==
    IF i > Len(pipe) THEN [raised |-> FALSE, pipeline |-> pipe]
    ELSE LET function == pipe[i] IN
         IF IsRollupLike(function)
         THEN IF start = None \/ end = None
              THEN [raised |-> TRUE, pipeline |-> pipe]
              ELSE NormalizeFrom(
                       IF ArgLast(function) = None
                       THEN [pipe EXCEPT ![i] = SetLast(function, start)]
                       ELSE pipe,
                       i + 1, start, end)
         ELSE IF function.name = "interpolate"
         THEN LET f1 == IF ArgLast2(function) = None
                        THEN SetLast2(function, start) ELSE function
                  f2 == IF ArgLast(f1) = None THEN SetLast(f1, end) ELSE f1
              IN NormalizeFrom([pipe EXCEPT ![i] = f2], i + 1, start, end)
         ELSE NormalizeFrom(pipe, i + 1, start, end)

_normalize_pipeline_functions(pipe, start, end) ==
    NormalizeFrom(pipe, 1, start, end)

\* validation that hands the two keys back in the wrong order
SwappedValidateDelete(sel) ==
    IF IsCompound(sel["devices"]) \/ IsCompound(sel["sensors"])
       \/ sel["devices"] = NoSelector \/ sel["sensors"] = NoSelector
    THEN [raised |-> TRUE, device_key |-> None, sensor_key |-> None]
    ELSE [raised |-> FALSE, device_key |-> sel["sensors"].value,
          sensor_key |-> sel["devices"].value]

\* _validate_datapoint_delete: whether it raised and the two keys
BadValidateDelete(sel) ==
    IF sel["devices"] = NoSelector \/ sel["sensors"] = NoSelector
    THEN [raised |-> TRUE, device_key |-> None, sensor_key |-> None]
    ELSE [raised |-> FALSE,
          device_key |-> Leaves(sel["devices"])[1].value,
          sensor_key |-> Leaves(sel["sensors"])[1].value]

_validate_datapoint_delete(sel) ==
    IF IsCompound(sel["devices"]) \/ IsCompound(sel["sensors"])
       \/ sel["devices"] = NoSelector \/ sel["sensors"] = NoSelector
    THEN [raised |-> TRUE, device_key |-> None, sensor_key |-> None]
    ELSE [raised |-> FALSE, device_key |-> sel["devices"].value,
          sensor_key |-> sel["sensors"].value]

\* a pipeline-appending method: pipeline.append(step); return self
AppendStep(method, step, start, end) ==
    /\ Len(calls) < MaxCalls
    /\ Len(pipeline) < MaxPipe
    /\ Len(accepted) + Len(pipeline) < MaxSteps
    /\ pipeline' = pipeline \o <<step>>
    /\ given' = given \o <<[name |-> step.name, start |-> start, end |-> end]>>
    /\ UNCHANGED <<object_type, selection, operation, accepted, calls, respvars>>
    /\ last' = Returning(Call(method, None, None, "ok"), "self")

aggregate == AppendStep("aggregate", Aggregation("sum"), None, None)

convert_timezone == AppendStep("convert_timezone", ConvertTZ("UTC"), None, None)

find(start) == AppendStep("find", Find("first", "1min", start), start, None)

interpolate(start, end) ==
    AppendStep("interpolate", Interpolation("linear", "1min", None, None), start, end)

multi_rollup(start) ==
    AppendStep("multi_rollup", MultiRollup("fs", "1min", start), start, None)

rollup(start) == AppendStep("rollup", Rollup("mean", "1min", start), start, None)

\* filter without the isinstance check
Laxfilter(selector) ==
    /\ Len(calls) < MaxCalls
    /\ Len(accepted) < MaxFilters
    /\ Len(accepted) + Len(pipeline) < MaxSteps
    /\ accepted' = accepted \o <<selector>>
    /\ selection' =
         [selection EXCEPT ![selector.selection_type] =
              SelectionAdd(selection[selector.selection_type], selector)]
    /\ UNCHANGED <<object_type, pipeline, operation, given, calls, respvars>>
    /\ last' = [Call("filter", None, None, "ok")
                   EXCEPT !.args = <<selector.kind>>, !.returned = "self"]

\* filter that files the selector under the builder's own object type
Badfilter(selector) ==
    /\ Len(calls) < MaxCalls
    /\ IF selector.kind \notin {"ScalarSelector", "OrClause", "AndClause"}
       THEN /\ UNCHANGED <<object_type, selection, pipeline, operation, accepted,
                           given, calls, respvars>>
            /\ last' = [Call("filter", None, None, "TypeError")
                           EXCEPT !.args = <<selector.kind>>]
       ELSE /\ Len(accepted) < MaxFilters
            /\ Len(accepted) + Len(pipeline) < MaxSteps
            /\ accepted' = accepted \o <<selector>>
            /\ selection' =
                 [selection EXCEPT ![object_type] =
                      SelectionAdd(selection[object_type], selector)]
            /\ UNCHANGED <<object_type, pipeline, operation, given, calls, respvars>>
            /\ last' = [Call("filter", None, None, "ok")
                           EXCEPT !.args = <<selector.kind>>, !.returned = "self"]

filter(selector) ==
    /\ Len(calls) < MaxCalls
    /\ IF selector.kind \notin {"ScalarSelector", "OrClause", "AndClause"}
       THEN /\ UNCHANGED <<object_type, selection, pipeline, operation, accepted,
                           given, calls, respvars>>
            /\ last' = [Call("filter", None, None, "TypeError")
                           EXCEPT !.args = <<selector.kind>>]
       ELSE /\ Len(accepted) < MaxFilters
            /\ Len(accepted) + Len(pipeline) < MaxSteps
            /\ accepted' = accepted \o <<selector>>
            /\ selection' =
                 [selection EXCEPT ![selector.selection_type] =
                      SelectionAdd(selection[selector.selection_type], selector)]
            /\ UNCHANGED <<object_type, pipeline, operation, given, calls, respvars>>
            /\ last' = [Call("filter", None, None, "ok")
                           EXCEPT !.args = <<selector.kind>>, !.returned = "self"]

\* a call on the client or on client.monitoring_client
Delegate(method, args) == calls' = calls \o <<[method |-> method, args |-> args]>>

\* a method that raises before it has changed anything
Raise(method, start, end, exception) ==
    /\ UNCHANGED <<object_type, selection, pipeline, operation, accepted, given,
                   calls, respvars>>
    /\ last' = Call(method, start, end, exception)

\* _handle_monitor_read and the rules branch of delete
MonitorCall(name, method, start, end) ==
    LET key == extract_key_for_monitoring(selection["rules"]) IN
    IF key.result = "ok"
    THEN /\ Delegate(method, <<key.value>>)
         /\ UNCHANGED <<object_type, selection, pipeline, operation, accepted,
                        given, respvars>>
         /\ last' = Returning(Call(name, start, end, "ok"), method)
    ELSE Raise(name, start, end, key.result)

\* delete on devices: "if start or end"
DeleteRejects(start, end) == Truthy(start) \/ Truthy(end)

\* a device read that keeps the pipeline it was given
KeptPipeline(pipe) == pipe

\* read on devices: "if self.pipeline: self.pipeline = []"
DiscardedPipeline(pipe) == IF pipe # <<>> THEN <<>> ELSE pipe

read(start, end) ==
    /\ Len(calls) < MaxCalls
    /\ IF object_type = "sensors"
       THEN IF start = Absent \/ end = Absent
            THEN Raise("read", start, end, "KeyError")
            ELSE LET n == _normalize_pipeline_functions(pipeline, start, end) IN
                 /\ operation' = APIOperation("read",
                                              [start |-> start, stop |-> end])
                 /\ pipeline' = n.pipeline
                 /\ UNCHANGED <<object_type, selection, accepted, given, respvars>>
                 /\ IF n.raised
                    THEN /\ UNCHANGED calls
                         /\ last' = Call("read", start, end, "ValueError")
                    ELSE /\ Delegate("client.read", <<"self">>)
                         /\ last' = Returning(Call("read", start, end, "ok"),
                                               "client.read")
       ELSE IF object_type = "devices"
       THEN /\ pipeline' = DiscardedPipeline(pipeline)
            /\ given' = <<>>
            /\ operation' = APIOperation("find", [quantifier |-> "all"])
            /\ Delegate("client.search_devices", <<"self">>)
            /\ UNCHANGED <<object_type, selection, accepted, respvars>>
            /\ last' = [Call("read", start, end, "ok")
                           EXCEPT !.warned = (pipeline # <<>>),
                                  !.returned = "client.search_devices"]
       ELSE MonitorCall("read", "monitoring_client.get_rule", start, end)

delete(start, end) ==
    /\ Len(calls) < MaxCalls
    /\ IF object_type = "devices"
       THEN IF DeleteRejects(KwGet(start), KwGet(end))
            THEN Raise("delete", start, end, "ValueError")
            ELSE /\ operation' = APIOperation("find", [quantifier |-> "all"])
                 /\ Delegate("client.delete_device", <<"self">>)
                 /\ UNCHANGED <<object_type, selection, pipeline, accepted,
                                given, respvars>>
                 /\ last' = Returning(Call("delete", start, end, "ok"),
                                       "client.delete_device")
       ELSE IF object_type = "sensors"
       THEN LET v == _validate_datapoint_delete(selection) IN
            IF KwGet(start) = None \/ KwGet(end) = None \/ v.raised
            THEN Raise("delete", start, end, "ValueError")
            ELSE /\ operation' =
                      APIOperation("delete",
                                   [start |-> start, stop |-> end,
                                    device_key |-> v.device_key,
                                    sensor_key |-> v.sensor_key])
                 /\ Delegate("client.delete_from_sensors",
                             <<v.device_key, v.sensor_key, start, end>>)
                 /\ UNCHANGED <<object_type, selection, pipeline, accepted,
                                given, respvars>>
                 /\ last' = Returning(Call("delete", start, end, "ok"),
                                       "client.delete_from_sensors")
       ELSE MonitorCall("delete", "monitoring_client.delete_rule", start, end)

\* the class of the value held in self.object_type: __init__ stores the
\* lower-cased class name plus 's', a str
ClassOf(value) == IF value \in ObjectTypes THEN "str" ELSE "NoneType"

\* isinstance(value, cls)
IsInstance(value, cls) == ClassOf(value) = cls

\* annotations, changes, logs, usage: a type check, then one monitoring read
RuleRead(name, method) ==
    /\ Len(calls) < MaxCalls
    /\ IF ~IsInstance(object_type, "Rule")
       THEN Raise(name, None, None, "TypeError")
       ELSE MonitorCall(name, method, None, None)

annotations == RuleRead("annotations", "monitoring_client.get_annotations")

changes == RuleRead("changes", "monitoring_client.get_changelog")

logs == RuleRead("logs", "monitoring_client.get_logs")

usage == RuleRead("usage", "monitoring_client.get_usage")

\* what single and latest may be given as <<function, timestamp>>
SingleArgs == {<<"latest", None>>, <<"before", "t1">>}

\* the args dict of single: timestamp only when it is not None
SingleOperation(function, timestamp, include_selection) ==
    APIOperation("single",
                 IF timestamp # None
                 THEN [include_selection |-> include_selection,
                       function |-> function, timestamp |-> timestamp]
                 ELSE [include_selection |-> include_selection,
                       function |-> function])

\* single that records the operation before it looks at the object type
BadSingleCall(name, function, timestamp, include_selection, warned, returns) ==
    /\ Len(calls) < MaxCalls
    /\ operation' = SingleOperation(function, timestamp, include_selection)
    /\ IF object_type = "sensors"
       THEN /\ Delegate("client.single", <<"self">>)
            /\ UNCHANGED <<object_type, selection, pipeline, accepted, given,
                           respvars>>
            /\ last' = [Call(name, None, None, "ok")
                           EXCEPT !.args = <<function, timestamp, include_selection>>,
                                  !.warned = warned,
                                  !.returned = IF returns THEN "client.single"
                                               ELSE None]
       ELSE /\ UNCHANGED <<object_type, selection, pipeline, accepted, given,
                           calls, respvars>>
            /\ last' = [Call(name, None, None, "TypeError")
                           EXCEPT !.args = <<function, timestamp, include_selection>>,
                                  !.warned = warned]

\* the body of single, entered directly (single) or through latest, which
\* warns first and does not hand the result back
SingleCall(name, function, timestamp, include_selection, warned, returns) ==
    /\ Len(calls) < MaxCalls
    /\ IF object_type = "sensors"
       THEN /\ operation' = SingleOperation(function, timestamp, include_selection)
            /\ Delegate("client.single", <<"self">>)
            /\ UNCHANGED <<object_type, selection, pipeline, accepted, given,
                           respvars>>
            /\ last' = [Call(name, None, None, "ok")
                           EXCEPT !.args = <<function, timestamp, include_selection>>,
                                  !.warned = warned,
                                  !.returned = IF returns THEN "client.single"
                                               ELSE None]
       ELSE /\ UNCHANGED <<object_type, selection, pipeline, operation, accepted,
                           given, calls, respvars>>
            /\ last' = [Call(name, None, None, "TypeError")
                           EXCEPT !.args = <<function, timestamp, include_selection>>,
                                  !.warned = warned]

single(function, timestamp, include_selection) ==
    SingleCall("single", function, timestamp, include_selection, FALSE, TRUE)

\* latest: warnings.warn(LATESTMSG); self.single('latest', ...) without return
latest(include_selection) ==
    SingleCall("latest", "latest", None, include_selection, TRUE, FALSE)

\* monitor that drops the pipeline the way a device read does
Badmonitor ==
    /\ Len(calls) < MaxCalls
    /\ pipeline' = <<>>
    /\ given' = <<>>
    /\ calls' = calls \o <<[method |-> "client.monitor", args |-> <<"rule">>,
                            selection |-> selection]>>
    /\ UNCHANGED <<object_type, selection, operation, accepted, respvars>>
    /\ last' = [Call("monitor", None, None, "ok")
                   EXCEPT !.warned = (pipeline # <<>>),
                          !.returned = "client.monitor"]

\* monitor(rule): warn on a pipeline, rule.selection = self.selection,
\* client.monitor(rule); the call record carries the selection the rule holds
monitor ==
    /\ Len(calls) < MaxCalls
    /\ calls' = calls \o <<[method |-> "client.monitor", args |-> <<"rule">>,
                            selection |-> selection]>>
    /\ UNCHANGED <<object_type, selection, pipeline, operation, accepted, given,
                   respvars>>
    /\ last' = [Call("monitor", None, None, "ok")
                   EXCEPT !.warned = (pipeline # <<>>),
                          !.returned = "client.monitor"]

----------------------------------------------------------------------------
(* Specifications                                                          *)

Init ==
    /\ QBInit
    /\ resp = NoResponse
    /\ raw = NoRaw

Next ==
    \/ \E selector \in Selectors : filter(selector)
    \/ aggregate
    \/ convert_timezone
    \/ \E start \in StepStarts : find(start)
    \/ \E start \in StepStarts : interpolate(start, start)
    \/ \E start \in StepStarts : multi_rollup(start)
    \/ \E start \in StepStarts : rollup(start)
    \/ \E a \in TerminalArgs : read(a[1], a[2])
    \/ \E a \in TerminalArgs : delete(a[1], a[2])
    \/ \E a \in SingleArgs, include_selection \in BOOLEAN :
           single(a[1], a[2], include_selection)
    \/ \E include_selection \in BOOLEAN : latest(include_selection)
    \/ monitor
    \/ annotations
    \/ changes
    \/ logs
    \/ usage

Spec == Init /\ [][Next]_vars

RespNext ==
    \/ \E status \in Statuses, reason \in Reasons : NewResponse(status, reason, "foo")
    \/ \E status \in Statuses, reason \in Reasons, body \in Bodies :
           NewWriteResponse(status, reason, body)

RespSpec == Init /\ [][RespNext]_vars

----------------------------------------------------------------------------
(* Response classification: properties checked under RespSpec              *)

\* C1: a Response stores status and reason unchanged and its outcome follows
\* from the status code alone: 207 is partial (2), any other status in
\* [200,300) is success (0), any status >= 300 is failure (1).
C1_ResponseOutcome ==
    resp.kind = "Response" =>
        /\ resp.status = raw.status_code
        /\ resp.reason = raw.reason
        /\ resp.successful \in {0, 1, 2}
        /\ (raw.status_code = 207 => resp.successful = 2)
        /\ (raw.status_code # 207 /\ raw.status_code >= 200
              /\ raw.status_code < 300 => resp.successful = 0)
        /\ (raw.status_code >= 300 => resp.successful = 1)

C1_Witness ==
    /\ resp.kind = "Response"
    /\ resp.status = 207
    /\ resp.reason = "Forbidden"
    /\ resp.successful = 2

\* C2: the outcome of a WriteResponse follows from the decoded body only:
\* all entries successful is success (0), else all entries failed is
\* failure (1), else partial (2), whatever the HTTP status code is.
C2_WriteOutcomeFromBody ==
    resp.kind = "WriteResponse" =>
        LET oks == {k \in DOMAIN raw.body : raw.body[k].success = TRUE}
            kos == {k \in DOMAIN raw.body : raw.body[k].success = FALSE}
        IN  /\ (kos = {} => resp.successful = 0)
            /\ (kos # {} /\ oks = {} => resp.successful = 1)
            /\ (kos # {} /\ oks # {} => resp.successful = 2)

C2_Witness ==
    /\ resp.kind = "WriteResponse"
    /\ resp.status = 403
    /\ DOMAIN raw.body = Keys
    /\ \A k \in Keys : raw.body[k].success
    /\ resp.successful = 0

\* C3: the four views of a WriteResponse partition the keys of the body: a
\* failed entry is in failures with its message and in no other view, a
\* successful entry is in the view of its device_state and in no other.
C3_ViewsPartitionKeys ==
    resp.kind = "WriteResponse" =>
        LET views == [created |-> created(resp), existing |-> existing(resp),
                      modified |-> modified(resp)]
            failed == {p[1] : p \in failures(resp)}
        IN  /\ failed \cup views.created \cup views.existing \cup views.modified
                  = DOMAIN raw.body
            /\ \A k \in DOMAIN raw.body :
                 IF raw.body[k].success
                 THEN /\ k \notin failed
                      /\ \A v \in DeviceStates :
                             k \in views[v] <=> v = raw.body[k].device_state
                 ELSE /\ \A v \in DeviceStates : k \notin views[v]
                      /\ \A p \in failures(resp) :
                             p[1] = k => p[2] = raw.body[k].message
                      /\ k \in failed

C3_Witness ==
    /\ resp.kind = "WriteResponse"
    /\ DOMAIN raw.body = Keys
    /\ raw.body["key1"] = [device_state |-> "existing", message |-> None,
                           success |-> TRUE]
    /\ raw.body["key2"] = [device_state |-> "created",
                           message |-> "bad things happened", success |-> FALSE]
    /\ failures(resp) = {<<"key2", "bad things happened">>}
    /\ existing(resp) = {"key1"}
    /\ created(resp) = {}

----------------------------------------------------------------------------
(* QueryBuilder: properties checked under Spec                             *)

\* the scalar selectors of the accepted filter arguments of category c
RECURSIVE AcceptedLeaves(_, _)
AcceptedLeaves(acc, c) ==
    IF acc = <<>> THEN <<>>
    ELSE (IF Head(acc).selection_type = c THEN Leaves(Head(acc)) ELSE <<>>)
         \o AcceptedLeaves(Tail(acc), c)

RollupSteps == {i \in 1..Len(pipeline) : IsRollupLike(pipeline[i])}
IsScalar(s) == s.kind = "ScalarSelector"
LastCall == calls[Len(calls)]

\* C4: a category's selection holds the selectors of every accepted filter
\* call for that category, in call order; a category no filter call named
\* keeps its empty selection; all three categories are always present.
C4_FilterAccumulates ==
    /\ DOMAIN selection = Categories
    /\ \A c \in Categories :
         /\ Leaves(selection[c]) = AcceptedLeaves(accepted, c)
         /\ ((\A i \in 1..Len(accepted) : accepted[i].selection_type # c)
                => selection[c] = NoSelector)

C4_Witness ==
    /\ Len(accepted) = 2
    /\ accepted[1] = ScalarSelector("devices", "k2")
    /\ accepted[2] = ScalarSelector("devices", "k1")
    /\ object_type = "sensors"
    /\ Leaves(selection["devices"]) = accepted
    /\ selection["sensors"] = NoSelector
    /\ selection["rules"] = NoSelector

\* C5: after the first completed read(start=S, end=E) of a sensors query, S
\* and E non-null, each Rollup, MultiRollup and Find step has the start it
\* was appended with, or S when it was appended without one; the steps are
\* the appended ones in the same order; operation is read(start=S, stop=E);
\* client.read was called once, with the builder.
C5_ReadBackfillsStart ==
    (/\ object_type = "sensors"
     /\ last.method = "read" /\ last.result = "ok"
     /\ last.start # None /\ last.end # None
     /\ Len(calls) = 1)
    => /\ Len(pipeline) = Len(given)
       /\ \A i \in 1..Len(pipeline) : pipeline[i].name = given[i].name
       /\ \A i \in RollupSteps :
            ArgLast(pipeline[i]) =
                IF given[i].start = None THEN last.start ELSE given[i].start
       /\ operation = APIOperation("read", [start |-> last.start,
                                            stop |-> last.end])
       /\ last.delegated = 1
       /\ calls = <<[method |-> "client.read", args |-> <<"self">>]>>

C5_Witness ==
    /\ object_type = "sensors"
    /\ last.method = "read" /\ last.result = "ok"
    /\ last.start = "t1" /\ last.end = "t2"
    /\ Len(pipeline) = 2
    /\ given[1] = [name |-> "find", start |-> "t3", end |-> None]
    /\ given[2] = [name |-> "rollup", start |-> None, end |-> None]
    /\ ArgLast(pipeline[1]) = "t3"
    /\ ArgLast(pipeline[2]) = "t1"
    /\ Len(calls) = 1

\* C6: read(start, end) on a sensors query with a Rollup, MultiRollup or
\* Find step anywhere in the pipeline, start or end None, ends in ValueError
\* and does not call the client.
C6_ReadNeedsStartAndEnd ==
    (/\ object_type = "sensors"
     /\ last.method = "read"
     /\ last.start # Absent /\ last.end # Absent
     /\ (last.start = None \/ last.end = None)
     /\ RollupSteps # {})
    => /\ last.result = "ValueError"
       /\ last.delegated = 0

C6_Witness ==
    /\ object_type = "sensors"
    /\ last.method = "read" /\ last.result = "ValueError"
    /\ last.start = "t1" /\ last.end = None
    /\ Len(pipeline) = 2
    /\ pipeline[1].name = "interpolate"
    /\ pipeline[2].name = "multi_rollup"
    /\ calls = <<>>

\* C7: delete(start=S, end=E) on a sensors query, S and E non-null, devices
\* and sensors selections each one scalar selector (values dk, sk), sets
\* operation to delete(start=S, stop=E, device_key=dk, sensor_key=sk) and
\* calls client.delete_from_sensors once with (dk, sk, S, E).
C7_DeleteDatapoints ==
    (/\ object_type = "sensors"
     /\ last.method = "delete"
     /\ KwGet(last.start) # None /\ KwGet(last.end) # None
     /\ IsScalar(selection["devices"]) /\ IsScalar(selection["sensors"]))
    => /\ last.result = "ok"
       /\ operation =
            APIOperation("delete",
                         [start |-> last.start, stop |-> last.end,
                          device_key |-> selection["devices"].value,
                          sensor_key |-> selection["sensors"].value])
       /\ last.delegated = 1
       /\ LastCall = [method |-> "client.delete_from_sensors",
                      args |-> <<selection["devices"].value,
                                 selection["sensors"].value,
                                 last.start, last.end>>]

C7_Witness ==
    /\ object_type = "sensors"
    /\ last.method = "delete" /\ last.result = "ok"
    /\ selection["devices"] = ScalarSelector("devices", "k1")
    /\ selection["sensors"] = ScalarSelector("sensors", "k2")
    /\ calls = <<[method |-> "client.delete_from_sensors",
                  args |-> <<"k1", "k2", "t1", "t2">>]>>

\* C8: delete on a sensors query ends in ValueError without a call on the
\* client when start or end is None (or not passed), or the devices or the
\* sensors selection is empty or is not a single scalar selector.
C8_DeleteDatapointsRejects ==
    (/\ object_type = "sensors"
     /\ last.method = "delete"
     /\ \/ KwGet(last.start) = None
        \/ KwGet(last.end) = None
        \/ ~IsScalar(selection["devices"])
        \/ ~IsScalar(selection["sensors"]))
    => /\ last.result = "ValueError"
       /\ last.delegated = 0

C8_Witness ==
    /\ object_type = "sensors"
    /\ last.method = "delete" /\ last.result = "ValueError"
    /\ last.start = "t1" /\ last.end = "t2"
    /\ Len(accepted) = 2
    /\ selection["devices"].kind = "OrClause"
    /\ IsScalar(selection["sensors"])
    /\ calls = <<>>

\* C9: delete on a devices query ends in ValueError, without calling
\* client.delete_device, whenever start or end is passed with a non-null
\* value; when neither is passed, operation becomes find(quantifier=all)
\* and client.delete_device is called once with the builder.
C9_DeleteDevicesRejectsStartEnd ==
    (object_type = "devices" /\ last.method = "delete")
    => IF last.start \notin {Absent, None} \/ last.end \notin {Absent, None}
       THEN last.result = "ValueError" /\ last.delegated = 0
       ELSE /\ last.result = "ok"
            /\ operation = APIOperation("find", [quantifier |-> "all"])
            /\ last.delegated = 1
            /\ LastCall = [method |-> "client.delete_device",
                           args |-> <<"self">>]

\* C10: for the rules selection, extract_key_for_monitoring fails with
\* ValueError when the root exposes more than one selector, gives the
\* selector's value when the root exposes exactly one scalar selector, and
\* the root's value when the root is a scalar selector; read on a rules
\* query calls monitoring_client.get_rule once with that key and makes no
\* call when the extraction fails.
C10_MonitoringKey ==
    LET root == selection["rules"]
        key == extract_key_for_monitoring(root)
    IN  /\ (HasSelectors(root) /\ Len(root.selectors) > 1
              => key.result = "ValueError")
        /\ (HasSelectors(root) /\ Len(root.selectors) = 1
              /\ IsScalar(root.selectors[1])
              => key.result = "ok" /\ key.value = Leaves(root)[1].value)
        /\ (IsScalar(root) => key.result = "ok" /\ key.value = root.value)
        /\ (object_type = "rules" /\ last.method = "read")
              => /\ last.result = key.result
                 /\ IF Len(Leaves(root)) = 1
                    THEN /\ last.result = "ok"
                         /\ last.delegated = 1
                         /\ LastCall = [method |-> "monitoring_client.get_rule",
                                        args |-> <<Leaves(root)[1].value>>]
                    ELSE last.result # "ok" /\ last.delegated = 0

C10_Witness ==
    /\ object_type = "rules"
    /\ last.method = "read" /\ last.result = "ok"
    /\ selection["rules"] =
           AndClause("rules", <<ScalarSelector("rules", "k1")>>)
    /\ calls = <<[method |-> "monitoring_client.get_rule", args |-> <<"k1">>]>>

\* C11: read or delete on a rules query whose rules selection is empty ends
\* in ValueError, and in no other kind of error, without a call on the
\* monitoring client.
C11_MissingKeyIsValueError ==
    (/\ object_type = "rules"
     /\ last.method \in {"read", "delete"}
     /\ selection["rules"] = NoSelector)
    => last.result = "ValueError" /\ last.delegated = 0

\* the monitoring read behind each of the four rule-only methods
MonitoringRead ==
    [annotations |-> "monitoring_client.get_annotations",
     changes |-> "monitoring_client.get_changelog",
     logs |-> "monitoring_client.get_logs",
     usage |-> "monitoring_client.get_usage"]

\* C12: annotations, changes, logs and usage on a rules query whose selection
\* resolves to the single key k call the corresponding monitoring read once
\* with k and return its result; on a sensors or devices query they end in
\* TypeError without a call.
C12_RuleReadsDelegate ==
    last.method \in DOMAIN MonitoringRead =>
        LET key == extract_key_for_monitoring(selection["rules"]) IN
        /\ (object_type = "rules" /\ key.result = "ok")
              => /\ last.result = "ok"
                 /\ last.delegated = 1
                 /\ LastCall = [method |-> MonitoringRead[last.method],
                                args |-> <<key.value>>]
                 /\ last.returned = MonitoringRead[last.method]
        /\ object_type # "rules"
              => last.result = "TypeError" /\ last.delegated = 0

\* C13: single(function, timestamp, include_selection) on a sensors query
\* sets operation to single with function and include_selection, and with
\* timestamp only when one was given, and calls client.single once; on a
\* devices or rules query it ends in TypeError, makes no call and leaves
\* operation, pipeline and selection as they were.
C13_Single ==
    [][last'.method = "single" =>
         LET function == last'.args[1]
             timestamp == last'.args[2]
             include_selection == last'.args[3]
         IN  IF object_type = "sensors"
             THEN /\ last'.result = "ok"
                  /\ operation'.name = "single"
                  /\ operation'.args.function = function
                  /\ operation'.args.include_selection = include_selection
                  /\ IF timestamp = None
                     THEN DOMAIN operation'.args = {"function", "include_selection"}
                     ELSE /\ DOMAIN operation'.args =
                                {"function", "include_selection", "timestamp"}
                          /\ operation'.args.timestamp = timestamp
                  /\ calls' = calls \o <<[method |-> "client.single",
                                          args |-> <<"self">>]>>
             ELSE /\ last'.result = "TypeError"
                  /\ calls' = calls
                  /\ operation' = operation
                  /\ pipeline' = pipeline
                  /\ selection' = selection]_vars

C13_Witness ==
    /\ object_type = "devices"
    /\ last.method = "single" /\ last.result = "TypeError"
    /\ last.args = <<"before", "t1", TRUE>>
    /\ pipeline # <<>> /\ accepted # <<>>
    /\ operation = NoOperation
    /\ calls = <<>>

\* C16: latest(include_selection) does what single("latest",
\* include_selection=include_selection) does, after one deprecation warning:
\* the same operation, the same single call on the client, the same returned
\* result, and the same TypeError on a devices or rules query.
C16_LatestIsSingle ==
    last.method = "latest" =>
        /\ last.warned
        /\ IF object_type = "sensors"
           THEN /\ last.result = "ok"
                /\ operation =
                     APIOperation("single",
                                  [include_selection |-> last.args[3],
                                   function |-> "latest"])
                /\ last.delegated = 1
                /\ LastCall = [method |-> "client.single", args |-> <<"self">>]
                /\ last.returned = "client.single"
           ELSE last.result = "TypeError" /\ last.delegated = 0

\* C14: read on a devices query never fails; it leaves the pipeline empty,
\* warns exactly when the pipeline was not empty, leaves the selection as it
\* was, sets operation to find(quantifier=all) and calls
\* client.search_devices once with the builder.
C14_DeviceReadDropsPipeline ==
    [][(object_type = "devices" /\ last'.method = "read") =>
         /\ last'.result = "ok"
         /\ pipeline' = <<>>
         /\ last'.warned = (Len(pipeline) > 0)
         /\ selection' = selection
         /\ operation' = [name |-> "find", args |-> [quantifier |-> "all"]]
         /\ calls' = calls \o <<[method |-> "client.search_devices",
                                 args |-> <<"self">>]>>]_vars

C14_Witness ==
    /\ object_type = "devices"
    /\ last.method = "read" /\ last.result = "ok" /\ last.warned
    /\ pipeline = <<>>
    /\ Len(accepted) = 2
    /\ operation = APIOperation("find", [quantifier |-> "all"])
    /\ calls = <<[method |-> "client.search_devices", args |-> <<"self">>]>>

\* C15: monitor(rule) warns exactly when the pipeline is not empty, leaves
\* the pipeline as it is, hands the rule the builder's selection of all
\* three categories and calls client.monitor once with that rule.
C15_MonitorKeepsPipeline ==
    [][last'.method = "monitor" =>
         /\ last'.result = "ok"
         /\ last'.warned = (Len(pipeline) > 0)
         /\ pipeline' = pipeline
         /\ selection' = selection
         /\ Len(calls') = Len(calls) + 1
         /\ SubSeq(calls', 1, Len(calls)) = calls
         /\ calls'[Len(calls')].method = "client.monitor"
         /\ calls'[Len(calls')].args = <<"rule">>
         /\ DOMAIN calls'[Len(calls')].selection = Categories
         /\ \A c \in Categories :
                calls'[Len(calls')].selection[c] = selection[c]]_vars

C15_Witness ==
    /\ last.method = "monitor" /\ last.result = "ok" /\ last.warned
    /\ Len(pipeline) = 2
    /\ Len(calls) = 1
    /\ LastCall.method = "client.monitor"
    /\ LastCall.selection["sensors"] = ScalarSelector("sensors", "k1")

\* C17: filter called with anything but a scalar selector or an AND/OR
\* clause ends in TypeError and leaves selection, pipeline and operation as
\* they were; an accepted call returns the builder itself.
C17_FilterRejects ==
    [][last'.method = "filter" =>
         IF last'.args[1] \in {"ScalarSelector", "AndClause", "OrClause"}
         THEN last'.result = "ok" /\ last'.returned = "self"
         ELSE /\ last'.result = "TypeError"
              /\ selection' = selection
              /\ pipeline' = pipeline
              /\ operation' = operation]_vars

C17_Witness ==
    /\ last.method = "filter" /\ last.result = "TypeError"
    /\ last.args = <<"DictSelector">>
    /\ Len(accepted) = 1 /\ Len(pipeline) = 1
    /\ \E c \in Categories : selection[c] # NoSelector

\* C18: a read or delete that ends in ValueError leaves operation, the
\* pipeline (its steps and their start/end arguments) and the selection as
\* they were, and has made no call on the client or the monitoring client.
C18_FailedTerminalChangesNothing ==
    [][(last'.method \in {"read", "delete"} /\ last'.result = "ValueError") =>
         /\ operation' = operation
         /\ pipeline' = pipeline
         /\ selection' = selection
         /\ calls' = calls]_vars

\* C20: after the first completed read(start=S, end=E) of a sensors query,
\* an Interpolation step has the start given to interpolate, or S when none
\* was given, and the end given to interpolate, or E when none was given.
C20_InterpolationBounds ==
    (/\ object_type = "sensors"
     /\ last.method = "read" /\ last.result = "ok"
     /\ Len(calls) = 1)
    => \A i \in 1..Len(pipeline) :
         pipeline[i].name = "interpolate" =>
            /\ ArgLast2(pipeline[i]) =
                 IF given[i].start # None THEN given[i].start ELSE last.start
            /\ ArgLast(pipeline[i]) =
                 IF given[i].end # None THEN given[i].end ELSE last.end

\* the calls that only accumulate selection and pipeline
Accumulating ==
    {"filter", "aggregate", "rollup", "multi_rollup", "find", "interpolate",
     "convert_timezone"}

\* C19: operation is null at construction and no filter or
\* pipeline-appending call changes it; it is set once per builder, at the
\* terminal call: after a read, single or delete completes, on any object
\* type, operation is non-null and names that call (find for a devices
\* query), and once set it does not change.
C19_OperationSetOnceAtTerminal ==
    /\ operation = NoOperation
    /\ [][last'.method \in Accumulating => operation' = operation]_vars
    /\ [][operation # NoOperation => operation' = operation]_vars
    /\ [](last.method \in {"read", "single", "delete"} /\ last.result = "ok"
            => /\ operation # NoOperation
               /\ operation.name =
                    IF object_type = "devices" THEN "find" ELSE last.method)

====
